---- MODULE Spec2Model ----
(***************************************************************************)
(* A model of src/main.go: the recruiting database console.  The state is  *)
(* the four tables of createTables with their SERIAL sequences, the        *)
(* position of the menu loop of main, and what the last menu action was    *)
(* given and reported.  One action per case of the menu's switch.          *)
(*                                                                         *)
(* A text value (a Go string, a TEXT column, a JSON document) is a         *)
(* sequence of one-character strings, so that trimming, splitting, JSON    *)
(* escaping and the 72-byte key of bcrypt are computed and not assumed.    *)
(* The characters are those of well-formed text: letters, digits, signs,   *)
(* the space, the comma, the quotation mark and the backslash.             *)
(*                                                                         *)
(* The store is modelled by what its schema promises: a statement is       *)
(* atomic, a SERIAL id is drawn before the row is checked and stays drawn  *)
(* when the insert fails, UNIQUE and REFERENCES reject the insert, and a   *)
(* JSONB column keeps the parsed document.  The store is taken to be       *)
(* reachable: no statement fails for a reason outside the schema.          *)
(***************************************************************************)
EXTENDS Integers, Sequences, FiniteSets, TLC

\* ------------------------------------------------------------------ bounds

\* At most MaxIds ids are drawn from the four SERIAL sequences in one run.
MaxIds == 2

\* ------------------------------------------------------------------- text

Quote == "\""
Backslash == "\\"
Space == " "
Comma == ","

\* strings.TrimSpace, on the one white space character of the inputs.
RECURSIVE TrimLeft(_)
TrimLeft(s) ==
  IF s # <<>> /\ Head(s) = Space THEN TrimLeft(Tail(s)) ELSE s

RECURSIVE TrimRight(_)
TrimRight(s) ==
  IF s # <<>> /\ s[Len(s)] = Space THEN TrimRight(SubSeq(s, 1, Len(s) - 1)) ELSE s

TrimSpace(s) == TrimRight(TrimLeft(s))

\* strings.Split(s, ","): the fields between the commas, empty ones kept.
RECURSIVE SplitFrom(_, _, _)
SplitFrom(s, cur, acc) ==
  IF s = <<>> THEN Append(acc, cur)
  ELSE IF Head(s) = Comma THEN SplitFrom(Tail(s), <<>>, Append(acc, cur))
  ELSE SplitFrom(Tail(s), Append(cur, Head(s)), acc)

Split(s) == SplitFrom(s, <<>>, <<>>)

\* getInput: the line read from stdin (without its newline; the empty line
\* at end of input), trimmed.
getInput(line) == TrimSpace(line)

\* strconv.Atoi on the trimmed line: an optional sign and decimal digits.
DigitChars == <<"0", "1", "2", "3", "4", "5", "6", "7", "8", "9">>

IsDigit(c) == \E i \in DOMAIN DigitChars : DigitChars[i] = c

DigitValue(c) == (CHOOSE i \in DOMAIN DigitChars : DigitChars[i] = c) - 1

RECURSIVE DecimalValue(_, _)
DecimalValue(s, acc) ==
  IF s = <<>> THEN acc ELSE DecimalValue(Tail(s), 10 * acc + DigitValue(Head(s)))

Atoi(s) ==
  LET signed == s # <<>> /\ Head(s) \in {"+", "-"}
      digits == IF signed THEN Tail(s) ELSE s
  IN  IF digits = <<>> \/ \E i \in DOMAIN digits : ~IsDigit(digits[i])
      THEN [ok |-> FALSE, num |-> 0]
      ELSE [ok |-> TRUE,
            num |-> IF signed /\ Head(s) = "-"
                    THEN 0 - DecimalValue(digits, 0)
                    ELSE DecimalValue(digits, 0)]

\* The error values of the program, by the place that makes them.
NoErr == "nil"
ErrParseInt == "bad integer input"
ErrParseFloat == "bad float input"
ErrEmptyCredentials == "username and password must not be empty"
ErrUserExists == "user already exists"
ErrHashing == "password hashing error"
ErrRegister == "user registration error"
ErrUserNotFound == "user not found"
ErrWrongPassword == "wrong password"
ErrEmptyCompany == "company name must not be empty"
ErrAddCompany == "company insert error"
ErrCandidateFields == "candidate required fields missing"
ErrAddCandidate == "candidate insert error"
ErrJobFields == "job opening required fields missing"
ErrAddJobOpening == "job opening insert error"
ErrQuery == "database query error"

getIntInput(line) ==
  LET r == Atoi(getInput(line))
  IN  IF r.ok THEN [err |-> NoErr, num |-> r.num]
      ELSE [err |-> ErrParseInt, num |-> 0]

\* strconv.ParseFloat on the trimmed line, for the lines the model feeds it:
\* decimal integers (which it parses to their value) and non-numbers.
getFloatInput(line) ==
  LET r == Atoi(getInput(line))
  IN  IF r.ok THEN [err |-> NoErr, num |-> r.num]
      ELSE [err |-> ErrParseFloat, num |-> 0]

\* getStringArrayInput: the empty line is the empty list; otherwise the
\* comma-separated fields, each trimmed.
getStringArrayInput(line) ==
  LET input == getInput(line)
      skills == Split(input)
  IN  IF input = <<>> THEN <<>>
      ELSE [i \in DOMAIN skills |-> TrimSpace(skills[i])]

\* ------------------------------------------------------------------- JSON

\* encoding/json's string encoding: the quote and the backslash are escaped.
RECURSIVE EscapeJson(_)
EscapeJson(s) ==
  IF s = <<>> THEN <<>>
  ELSE (IF Head(s) \in {Quote, Backslash} THEN <<Backslash, Head(s)>> ELSE <<Head(s)>>)
       \o EscapeJson(Tail(s))

JsonString(s) == <<Quote>> \o EscapeJson(s) \o <<Quote>>

RECURSIVE JoinJson(_, _)
JoinJson(list, sep) ==
  IF list = <<>> THEN <<>>
  ELSE IF Len(list) = 1 THEN JsonString(list[1])
  ELSE JsonString(Head(list)) \o sep \o JoinJson(Tail(list), sep)

\* json.Marshal of a non-nil []string.
jsonMarshal(list) == <<"[">> \o JoinJson(list, <<Comma>>) \o <<"]">>

\* The text the store prints for a jsonb array: ", " between the elements.
JsonbOut(list) == <<"[">> \o JoinJson(list, <<Comma, Space>>) \o <<"]">>

JsonFail == [ok |-> FALSE, val |-> <<>>, next |-> 0]

RECURSIVE SkipSpace(_, _)
SkipSpace(t, i) ==
  IF i <= Len(t) /\ t[i] = Space THEN SkipSpace(t, i + 1) ELSE i

\* The characters of a JSON string up to its closing quote; i is the place
\* after the opening quote.
RECURSIVE ParseJsonString(_, _, _)
ParseJsonString(t, i, acc) ==
  IF i > Len(t) THEN JsonFail
  ELSE IF t[i] = Quote THEN [ok |-> TRUE, val |-> acc, next |-> i + 1]
  ELSE IF t[i] = Backslash
       THEN IF i + 1 <= Len(t) /\ t[i + 1] \in {Quote, Backslash}
            THEN ParseJsonString(t, i + 2, Append(acc, t[i + 1]))
            ELSE JsonFail
  ELSE ParseJsonString(t, i + 1, Append(acc, t[i]))

\* The elements of a non-empty JSON array of strings, up to its "]".
RECURSIVE ParseJsonElements(_, _, _)
ParseJsonElements(t, i, acc) ==
  LET j == SkipSpace(t, i)
  IN  IF j > Len(t) \/ t[j] # Quote THEN JsonFail
      ELSE LET s == ParseJsonString(t, j + 1, <<>>)
               k == SkipSpace(t, s.next)
           IN  IF ~s.ok \/ k > Len(t) THEN JsonFail
               ELSE IF t[k] = Comma
                    THEN ParseJsonElements(t, k + 1, Append(acc, s.val))
               ELSE IF t[k] = "]"
                    THEN [ok |-> TRUE, val |-> Append(acc, s.val), next |-> k + 1]
               ELSE JsonFail

\* A JSON document that is an array of strings, parsed; anything else in
\* the alphabet of the model is not JSON.  This is the store's jsonb input
\* (the value a JSONB column keeps is the parsed array, order and
\* duplicates kept) and json.Unmarshal into a []string.
ParseJsonArray(t) ==
  LET j == SkipSpace(t, 1)
  IN  IF j > Len(t) \/ t[j] # "[" THEN JsonFail
      ELSE LET k == SkipSpace(t, j + 1)
               r == IF k <= Len(t) /\ t[k] = "]"
                    THEN [ok |-> TRUE, val |-> <<>>, next |-> k + 1]
                    ELSE ParseJsonElements(t, k, <<>>)
           IN  IF r.ok /\ SkipSpace(t, r.next) > Len(t) THEN r ELSE JsonFail

\* Mutant of jsonUnmarshal: the text between the brackets is cut at its
\* commas and each piece stripped of its first and last character.
jsonUnmarshalNaive(t) ==
  LET inner == SubSeq(t, 2, Len(t) - 1)
      parts == Split(inner)
  IN  IF inner = <<>> THEN <<>>
      ELSE [i \in DOMAIN parts |->
              SubSeq(TrimSpace(parts[i]), 2, Len(TrimSpace(parts[i])) - 1)]

\* json.Unmarshal(text, &slice) with its error ignored: the slice stays
\* empty when the text does not parse.
jsonUnmarshal(t) == ParseJsonArray(t).val

\* jsonb containment a @> b of two arrays of strings: every element of b
\* equals some element of a.
JsonbContains(a, b) ==
  \A i \in DOMAIN b : \E j \in DOMAIN a : a[j] = b[i]

\* ----------------------------------------------------------------- bcrypt

\* bcrypt works on at most BcryptMaxLen bytes of key material.
BcryptMaxLen == 72

\* The byte bcrypt appends to the password (a C string terminator).
NUL == "NUL"

\* The key material of bcrypt: the password and its terminator, repeated
\* cyclically over the BcryptMaxLen bytes of the Blowfish key schedule.
\* Bytes of the password past BcryptMaxLen never enter the schedule.
BcryptKey(password) ==
  LET k == Append(password, NUL)
  IN  [i \in 1..BcryptMaxLen |-> k[((i - 1) % Len(k)) + 1]]

\* The digest: it names its salt, and is a one-way function of salt and key
\* (kept symbolic: the pair itself).
BcryptDigest(password, salt) == [salt |-> salt, key |-> BcryptKey(password)]

\* hashPassword: bcrypt.GenerateFromPassword with a salt drawn at random;
\* it refuses a password longer than BcryptMaxLen bytes (ErrPasswordTooLong,
\* golang.org/x/crypto since v0.5.0; the repository pins no older version).
hashPassword(password, salt) ==
  IF Len(password) > BcryptMaxLen
  THEN [err |-> ErrHashing, hash |-> <<>>]
  ELSE [err |-> NoErr, hash |-> BcryptDigest(password, salt)]

\* checkPasswordHash: bcrypt.CompareHashAndPassword recomputes the digest
\* of the password under the stored digest's salt and compares; it does
\* not look at the password's length.
checkPasswordHash(password, hash) == BcryptDigest(password, hash.salt) = hash

\* ------------------------------------------------------------------ store

VARIABLES
  users,         \* rows of table users, in insertion order
  companies,     \* rows of table companies
  candidates,    \* rows of table candidates
  job_openings,  \* rows of table job_openings
  seq,           \* the last value of each table's SERIAL sequence
  pc,            \* main: "menu" at the prompt of the loop, "done" after return
  out,           \* what the last menu action was given and what it reported
  hist,          \* history: what registerUser and the add functions were given
  inst,          \* two independent instances inside registerUser
  log            \* history: the order of the instances' statements

tables == <<users, companies, candidates, job_openings>>
vars == <<users, companies, candidates, job_openings, seq, pc, out, hist, inst, log>>

DefaultRole == "user"

\* The ids drawn so far from all four sequences.
IdsDrawn(sq) == sq.users + sq.companies + sq.candidates + sq.job_openings

\* SELECT ... FROM users WHERE username = $1: the rows found.
UsersNamed(us, username) == SelectSeq(us, LAMBDA r : r.username = username)

\* Mutant of InsertUser: username is not declared UNIQUE.
InsertUserNoUnique(us, last, username, hash) ==
  [ok |-> TRUE,
   rows |-> Append(us, [id |-> last + 1, username |-> username,
                        password_hash |-> hash, role |-> DefaultRole]),
   last |-> last + 1]

\* INSERT INTO users (username, password_hash): the id is drawn from the
\* sequence first (a failed insert keeps it drawn), username is UNIQUE, role
\* takes its default.
InsertUser(us, last, username, hash) ==
  IF UsersNamed(us, username) # <<>>
  THEN [ok |-> FALSE, rows |-> us, last |-> last + 1]
  ELSE [ok |-> TRUE,
        rows |-> Append(us, [id |-> last + 1, username |-> username,
                             password_hash |-> hash, role |-> DefaultRole]),
        last |-> last + 1]

\* registerUser up to its existence probe: the error it returns there, or
\* NoErr when it goes on to hash and insert.
registerUserProbe(us, username, password) ==
  IF username = <<>> \/ password = <<>> THEN ErrEmptyCredentials
  ELSE IF UsersNamed(us, username) # <<>> THEN ErrUserExists
  ELSE NoErr

\* registerUser after its probe found no row: hash, then insert.
registerUserInsert(us, last, username, password, salt) ==
  LET h == hashPassword(password, salt)
      r == InsertUser(us, last, username, h.hash)
  IN  IF h.err # NoErr THEN [err |-> ErrHashing, rows |-> us, last |-> last]
      ELSE [err |-> IF r.ok THEN NoErr ELSE ErrRegister,
            rows |-> r.rows, last |-> r.last]

registerUser(us, last, username, password, salt) ==
  LET e == registerUserProbe(us, username, password)
  IN  IF e # NoErr THEN [err |-> e, rows |-> us, last |-> last]
      ELSE registerUserInsert(us, last, username, password, salt)

\* Mutant of loginUser: the query has lost its WHERE clause and takes the
\* first row of the table.
loginUserAnyRow(us, username, password) ==
  IF us = <<>> THEN [id |-> 0, role |-> "", err |-> ErrUserNotFound]
  ELSE IF ~checkPasswordHash(password, us[1].password_hash)
       THEN [id |-> 0, role |-> "", err |-> ErrWrongPassword]
  ELSE [id |-> us[1].id, role |-> us[1].role, err |-> NoErr]

loginUser(us, username, password) ==
  LET found == UsersNamed(us, username)
  IN  IF found = <<>> THEN [id |-> 0, role |-> "", err |-> ErrUserNotFound]
      ELSE IF ~checkPasswordHash(password, found[1].password_hash)
           THEN [id |-> 0, role |-> "", err |-> ErrWrongPassword]
      ELSE [id |-> found[1].id, role |-> found[1].role, err |-> NoErr]

\* Mutant of addCompany: a name already there is replaced by the new row.
addCompanyReplace(cs, last, companyName) ==
  IF companyName = <<>> THEN [err |-> ErrEmptyCompany, rows |-> cs, last |-> last]
  ELSE [err |-> NoErr,
        rows |-> Append(SelectSeq(cs, LAMBDA r : r.name # companyName),
                        [id |-> last + 1, name |-> companyName]),
        last |-> last + 1]

\* addCompany: name is UNIQUE in companies.
addCompany(cs, last, companyName) ==
  IF companyName = <<>> THEN [err |-> ErrEmptyCompany, rows |-> cs, last |-> last]
  ELSE IF \E i \in DOMAIN cs : cs[i].name = companyName
       THEN [err |-> ErrAddCompany, rows |-> cs, last |-> last + 1]
  ELSE [err |-> NoErr,
        rows |-> Append(cs, [id |-> last + 1, name |-> companyName]),
        last |-> last + 1]

\* Mutant of addCandidate: the row is inserted before the fields are checked.
addCandidateInsertFirst(cands, last, candidate) ==
  [err |-> IF candidate.FullName = <<>> \/ candidate.Age <= 0
           THEN ErrCandidateFields ELSE NoErr,
   rows |-> Append(cands, [id |-> last + 1,
                           full_name |-> candidate.FullName,
                           age |-> candidate.Age,
                           email |-> candidate.Email,
                           experience |-> candidate.Experience,
                           skills |-> candidate.Skills]),
   last |-> last + 1]

\* addCandidate: the skills go to the store as JSON text, and the JSONB
\* column keeps the array parsed from it (text that is not JSON fails the
\* insert, its id drawn).
addCandidate(cands, last, candidate) ==
  LET skillsJSON == jsonMarshal(candidate.Skills)
      skills == ParseJsonArray(skillsJSON)
  IN  IF candidate.FullName = <<>> \/ candidate.Age <= 0
      THEN [err |-> ErrCandidateFields, rows |-> cands, last |-> last]
      ELSE IF ~skills.ok
           THEN [err |-> ErrAddCandidate, rows |-> cands, last |-> last + 1]
      ELSE [err |-> NoErr,
            rows |-> Append(cands, [id |-> last + 1,
                                    full_name |-> candidate.FullName,
                                    age |-> candidate.Age,
                                    email |-> candidate.Email,
                                    experience |-> candidate.Experience,
                                    skills |-> skills.val]),
            last |-> last + 1]

\* Mutant of addJobOpening: company_id references nothing.
addJobOpeningNoForeignKey(jobs, last, cs, jobOpening) ==
  IF jobOpening.Title = <<>> \/ jobOpening.CompanyID <= 0 \/ jobOpening.Salary <= 0
  THEN [err |-> ErrJobFields, rows |-> jobs, last |-> last]
  ELSE [err |-> NoErr,
        rows |-> Append(jobs, [id |-> last + 1,
                               company_id |-> jobOpening.CompanyID,
                               title |-> jobOpening.Title,
                               experience |-> jobOpening.Experience,
                               salary |-> jobOpening.Salary,
                               required_skills |-> jobOpening.RequiredSkills]),
        last |-> last + 1]

\* addJobOpening: company_id REFERENCES companies(id), checked by the store
\* on insert.
addJobOpening(jobs, last, cs, jobOpening) ==
  LET requiredSkillsJSON == jsonMarshal(jobOpening.RequiredSkills)
      skills == ParseJsonArray(requiredSkillsJSON)
  IN  IF jobOpening.Title = <<>> \/ jobOpening.CompanyID <= 0 \/ jobOpening.Salary <= 0
      THEN [err |-> ErrJobFields, rows |-> jobs, last |-> last]
      ELSE IF ~skills.ok \/ ~\E i \in DOMAIN cs : cs[i].id = jobOpening.CompanyID
           THEN [err |-> ErrAddJobOpening, rows |-> jobs, last |-> last + 1]
      ELSE [err |-> NoErr,
            rows |-> Append(jobs, [id |-> last + 1,
                                   company_id |-> jobOpening.CompanyID,
                                   title |-> jobOpening.Title,
                                   experience |-> jobOpening.Experience,
                                   salary |-> jobOpening.Salary,
                                   required_skills |-> skills.val]),
            last |-> last + 1]

\* The query parameter of the two searches: the skill pasted between
\* [" and "], which the store then reads as jsonb.
SkillParam(skill) == ParseJsonArray(<<"[", Quote>> \o skill \o <<Quote, "]">>)

\* A candidates row scanned into a Candidate.
ScanCandidate(r) ==
  [ID |-> r.id, FullName |-> r.full_name, Age |-> r.age, Email |-> r.email,
   Experience |-> r.experience, Skills |-> jsonUnmarshal(JsonbOut(r.skills))]

\* A job_openings row scanned into a JobOpening.
ScanJobOpening(r) ==
  [ID |-> r.id, CompanyID |-> r.company_id, Title |-> r.title,
   Experience |-> r.experience, Salary |-> r.salary,
   RequiredSkills |-> jsonUnmarshal(JsonbOut(r.required_skills))]

ScanCandidates(rows) == [i \in DOMAIN rows |-> ScanCandidate(rows[i])]

ScanJobOpenings(rows) == [i \in DOMAIN rows |-> ScanJobOpening(rows[i])]

findCandidatesBySkill(cands, skill) ==
  LET q == SkillParam(skill)
  IN  IF ~q.ok THEN [rows |-> <<>>, err |-> ErrQuery]
      ELSE [rows |-> ScanCandidates(SelectSeq(cands, LAMBDA r : JsonbContains(r.skills, q.val))),
            err |-> NoErr]

findJobOpeningsBySkill(jobs, skill) ==
  LET q == SkillParam(skill)
  IN  IF ~q.ok THEN [rows |-> <<>>, err |-> ErrQuery]
      ELSE [rows |-> ScanJobOpenings(SelectSeq(jobs, LAMBDA r : JsonbContains(r.required_skills, q.val))),
            err |-> NoErr]

\* listAllJobOpenings: every row, scanned and printed.
listAllJobOpenings(jobs) == [rows |-> ScanJobOpenings(jobs), err |-> NoErr]

\* Mutant of handleError: an error ends the process.
handleErrorFatal(err) == IF err # NoErr THEN "done" ELSE "menu"

\* handleError prints the error, if any, and returns: the loop of main goes
\* on to its next iteration.  The value is where main is afterwards.
handleError(err) == "menu"

\* ----------------------------------------------------------------- inputs

\* The lines typed at the prompts.
ChoiceLines ==
  {<<"1">>, <<"2">>, <<"3">>, <<"4">>, <<"5">>, <<"6">>, <<"7">>, <<"8">>,
   <<Space, "9">>, <<"0">>, <<"1", "0">>, <<"x">>, <<>>}
UsernameLines == {<<>>, <<Space, "u">>, <<"v">>}
PasswordLines ==
  {<<>>, <<"p">>, [i \in 1..BcryptMaxLen |-> "p"], [i \in 1..(BcryptMaxLen + 1) |-> "p"]}
CompanyLines == {<<>>, <<"c">>, <<"d", Space>>}
NameLines == {<<>>, <<"n">>}
AgeLines == {<<"x">>, <<"0">>, <<"7">>}
EmailLines == {<<"e">>}
ExperienceLines == {<<>>}
SkillLines == {<<>>, <<"s", Comma, Space, "g", Comma, "s", Comma, Quote>>}
TitleLines == {<<>>, <<"t">>}
CompanyIdLines == {<<"x">>, <<"0">>, <<"1">>, <<"2">>}
SalaryLines == {<<"x">>, <<"0">>, <<"5">>}
SearchLines == {<<>>, <<"g">>, <<Quote>>, <<"s", Quote, Comma, Quote, "g">>}

\* The salts bcrypt may draw.
Salts == {1, 2}

\* ------------------------------------------------------------------- main

NoOut == [op |-> "none", in |-> <<>>, err |-> NoErr, res |-> <<>>]
NoHist == [registered |-> {}, skills |-> {}]
Idle == [i \in {1, 2} |-> [pc |-> "idle", username |-> <<>>, password |-> <<>>, err |-> NoErr]]

\* After createTables on an empty database: main is at its first prompt.
Init ==
  /\ users = <<>>
  /\ companies = <<>>
  /\ candidates = <<>>
  /\ job_openings = <<>>
  /\ seq = [users |-> 0, companies |-> 0, candidates |-> 0, job_openings |-> 0]
  /\ pc = "menu"
  /\ out = NoOut
  /\ hist = NoHist
  /\ inst = Idle
  /\ log = <<>>

\* The choice read at the menu prompt is the number n.
Chosen(n) ==
  \E line \in ChoiceLines : getIntInput(line) = [err |-> NoErr, num |-> n]

\* In the actions, a value computed once and used in several conjuncts is
\* bound by \E over a one-element set.

\* case 1
Register ==
  /\ pc = "menu" /\ Chosen(1)
  /\ \E ul \in UsernameLines, pl \in PasswordLines, salt \in Salts :
     \E username \in {getInput(ul)}, password \in {getInput(pl)} :
     \E r \in {registerUser(users, seq.users, username, password, salt)} :
       /\ IdsDrawn([seq EXCEPT !.users = r.last]) <= MaxIds
       /\ users' = r.rows
       /\ seq' = [seq EXCEPT !.users = r.last]
       /\ out' = [op |-> "register",
                  in |-> [username |-> username, password |-> password],
                  err |-> r.err, res |-> <<>>]
       /\ hist' = IF r.err = NoErr
                  THEN [hist EXCEPT !.registered =
                          @ \cup {[username |-> username, password |-> password,
                                   id |-> r.last]}]
                  ELSE hist
       /\ pc' = handleError(r.err)
  /\ UNCHANGED <<companies, candidates, job_openings, inst, log>>

\* case 2
Login ==
  /\ pc = "menu" /\ Chosen(2)
  /\ \E ul \in UsernameLines, pl \in PasswordLines :
     \E username \in {getInput(ul)}, password \in {getInput(pl)} :
     \E r \in {loginUser(users, username, password)} :
       /\ out' = [op |-> "login",
                  in |-> [username |-> username, password |-> password],
                  err |-> r.err, res |-> [id |-> r.id, role |-> r.role]]
       /\ pc' = handleError(r.err)
  /\ UNCHANGED <<tables, seq, hist, inst, log>>

\* case 3
AddCompany ==
  /\ pc = "menu" /\ Chosen(3)
  /\ \E cl \in CompanyLines :
     \E companyName \in {getInput(cl)} :
     \E r \in {addCompany(companies, seq.companies, companyName)} :
       /\ IdsDrawn([seq EXCEPT !.companies = r.last]) <= MaxIds
       /\ companies' = r.rows
       /\ seq' = [seq EXCEPT !.companies = r.last]
       /\ out' = [op |-> "add_company", in |-> [name |-> companyName],
                  err |-> r.err, res |-> <<>>]
       /\ pc' = handleError(r.err)
  /\ UNCHANGED <<users, candidates, job_openings, hist, inst, log>>

\* case 4: the prompts are read in turn, and an age that does not parse
\* ends the iteration before the later prompts.
AddCandidate ==
  /\ pc = "menu" /\ Chosen(4)
  /\ \E nl \in NameLines, al \in AgeLines :
     \E age \in {getIntInput(al)} :
       IF age.err # NoErr
       THEN /\ out' = [op |-> "add_candidate", in |-> <<>>,
                       err |-> age.err, res |-> <<>>]
            /\ pc' = handleError(age.err)
            /\ UNCHANGED <<candidates, seq, hist>>
       ELSE \E el \in EmailLines, xl \in ExperienceLines, sl \in SkillLines :
            \E candidate \in {[FullName |-> getInput(nl), Age |-> age.num,
                               Email |-> getInput(el), Experience |-> getInput(xl),
                               Skills |-> getStringArrayInput(sl)]} :
            \E r \in {addCandidate(candidates, seq.candidates, candidate)} :
              /\ IdsDrawn([seq EXCEPT !.candidates = r.last]) <= MaxIds
              /\ candidates' = r.rows
              /\ seq' = [seq EXCEPT !.candidates = r.last]
              /\ out' = [op |-> "add_candidate", in |-> candidate,
                         err |-> r.err, res |-> <<>>]
              /\ hist' = IF r.err = NoErr
                         THEN [hist EXCEPT !.skills =
                                 @ \cup {[table |-> "candidates", id |-> r.last,
                                          skills |-> candidate.Skills]}]
                         ELSE hist
              /\ pc' = handleError(r.err)
  /\ UNCHANGED <<users, companies, job_openings, inst, log>>

\* case 5: likewise for the company id and the salary.
AddJobOpening ==
  /\ pc = "menu" /\ Chosen(5)
  /\ \E tl \in TitleLines, cl \in CompanyIdLines :
     \E companyID \in {getIntInput(cl)} :
       IF companyID.err # NoErr
       THEN /\ out' = [op |-> "add_job_opening", in |-> <<>>,
                       err |-> companyID.err, res |-> <<>>]
            /\ pc' = handleError(companyID.err)
            /\ UNCHANGED <<job_openings, seq, hist>>
       ELSE \E xl \in ExperienceLines, al \in SalaryLines :
            \E salary \in {getFloatInput(al)} :
              IF salary.err # NoErr
              THEN /\ out' = [op |-> "add_job_opening", in |-> <<>>,
                              err |-> salary.err, res |-> <<>>]
                   /\ pc' = handleError(salary.err)
                   /\ UNCHANGED <<job_openings, seq, hist>>
              ELSE \E sl \in SkillLines :
                   \E jobOpening \in
                        {[Title |-> getInput(tl), CompanyID |-> companyID.num,
                          Experience |-> getInput(xl), Salary |-> salary.num,
                          RequiredSkills |-> getStringArrayInput(sl)]} :
                   \E r \in {addJobOpening(job_openings, seq.job_openings,
                                           companies, jobOpening)} :
                     /\ IdsDrawn([seq EXCEPT !.job_openings = r.last]) <= MaxIds
                     /\ job_openings' = r.rows
                     /\ seq' = [seq EXCEPT !.job_openings = r.last]
                     /\ out' = [op |-> "add_job_opening", in |-> jobOpening,
                                err |-> r.err, res |-> <<>>]
                     /\ hist' = IF r.err = NoErr
                                THEN [hist EXCEPT !.skills =
                                        @ \cup {[table |-> "job_openings", id |-> r.last,
                                                 skills |-> jobOpening.RequiredSkills]}]
                                ELSE hist
                     /\ pc' = handleError(r.err)
  /\ UNCHANGED <<users, companies, candidates, inst, log>>

\* case 6
FindCandidates ==
  /\ pc = "menu" /\ Chosen(6)
  /\ \E sl \in SearchLines :
     \E skill \in {getInput(sl)} :
     \E r \in {findCandidatesBySkill(candidates, skill)} :
       /\ out' = [op |-> "find_candidates", in |-> [skill |-> skill],
                  err |-> r.err, res |-> r.rows]
       /\ pc' = handleError(r.err)
  /\ UNCHANGED <<tables, seq, hist, inst, log>>

\* case 7
FindJobOpenings ==
  /\ pc = "menu" /\ Chosen(7)
  /\ \E sl \in SearchLines :
     \E skill \in {getInput(sl)} :
     \E r \in {findJobOpeningsBySkill(job_openings, skill)} :
       /\ out' = [op |-> "find_job_openings", in |-> [skill |-> skill],
                  err |-> r.err, res |-> r.rows]
       /\ pc' = handleError(r.err)
  /\ UNCHANGED <<tables, seq, hist, inst, log>>

\* case 8
ListJobOpenings ==
  /\ pc = "menu" /\ Chosen(8)
  /\ \E r \in {listAllJobOpenings(job_openings)} :
       /\ out' = [op |-> "list_job_openings", in |-> <<>>,
                  err |-> r.err, res |-> r.rows]
       /\ pc' = handleError(r.err)
  /\ UNCHANGED <<tables, seq, hist, inst, log>>

\* case 9: return
Exit ==
  /\ pc = "menu" /\ Chosen(9)
  /\ out' = [op |-> "exit", in |-> [choice |-> 9], err |-> NoErr, res |-> <<>>]
  /\ pc' = "done"
  /\ UNCHANGED <<tables, seq, hist, inst, log>>

\* default: a number that is no menu entry
UnknownChoice ==
  /\ pc = "menu"
  /\ \E line \in ChoiceLines :
     \E c \in {getIntInput(line)} :
       /\ c.err = NoErr /\ c.num \notin 1..9
       /\ out' = [op |-> "unknown_choice", in |-> [choice |-> c.num],
                  err |-> NoErr, res |-> <<>>]
       /\ pc' = "menu"
  /\ UNCHANGED <<tables, seq, hist, inst, log>>

\* The choice does not parse: handleError, continue.
BadChoice ==
  /\ pc = "menu"
  /\ \E line \in ChoiceLines :
     \E c \in {getIntInput(line)} :
       /\ c.err # NoErr
       /\ out' = [op |-> "bad_choice", in |-> <<>>, err |-> c.err, res |-> <<>>]
       /\ pc' = handleError(c.err)
  /\ UNCHANGED <<tables, seq, hist, inst, log>>

\* ------------------------------------------- two instances, one store

\* Two instances of the program, each inside registerUser with its own
\* arguments, on the same empty database.  The probe and the insert are one
\* statement each, and the store runs statements one at a time.
RaceInit ==
  /\ users = <<>>
  /\ companies = <<>>
  /\ candidates = <<>>
  /\ job_openings = <<>>
  /\ seq = [users |-> 0, companies |-> 0, candidates |-> 0, job_openings |-> 0]
  /\ pc = "menu"
  /\ out = NoOut
  /\ hist = NoHist
  /\ inst \in [{1, 2} -> {[pc |-> "probe", username |-> getInput(ul),
                           password |-> getInput(pl), err |-> NoErr] :
                            ul \in UsernameLines, pl \in PasswordLines}]
  /\ log = <<>>

\* Lines 63-74 of instance i: the emptiness check and the existence probe.
RaceProbe(i) ==
  /\ inst[i].pc = "probe"
  /\ \E e \in {registerUserProbe(users, inst[i].username, inst[i].password)} :
       inst' = [inst EXCEPT ![i].pc = IF e = NoErr THEN "insert" ELSE "done",
                            ![i].err = e]
  /\ log' = Append(log, [stmt |-> "probe", by |-> i])
  /\ UNCHANGED <<tables, seq, pc, out, hist>>

\* Lines 76-91 of instance i: the hash and the insert.
RaceInsert(i) ==
  /\ inst[i].pc = "insert"
  /\ \E salt \in Salts :
     \E r \in {registerUserInsert(users, seq.users, inst[i].username,
                                  inst[i].password, salt)} :
       /\ users' = r.rows
       /\ seq' = [seq EXCEPT !.users = r.last]
       /\ inst' = [inst EXCEPT ![i].pc = "done", ![i].err = r.err]
  /\ log' = Append(log, [stmt |-> "insert", by |-> i])
  /\ UNCHANGED <<companies, candidates, job_openings, pc, out, hist>>

RaceNext == \E i \in {1, 2} : RaceProbe(i) \/ RaceInsert(i)

SpecRace == RaceInit /\ [][RaceNext]_vars

Next ==
  \/ Register
  \/ Login
  \/ AddCompany
  \/ AddCandidate
  \/ AddJobOpening
  \/ FindCandidates
  \/ FindJobOpenings
  \/ ListJobOpenings
  \/ Exit
  \/ UnknownChoice
  \/ BadChoice

Spec == Init /\ [][Next]_vars

\* ----------------------------------------------------------------- claims

\* What the claims say of an argument pair or an instance c.
NonEmptyCredentials(c) == c.username # <<>> /\ c.password # <<>>

ValidCredentials(c) == NonEmptyCredentials(c) /\ Len(c.password) <= BcryptMaxLen

\* registerUser succeeded for exactly these arguments, earlier.
RegisteredAs(c) ==
  \E g \in hist.registered : g.username = c.username /\ g.password = c.password

NoLogin == [id |-> 0, role |-> ""]

\* In this step registerUser, given accepted arguments and a username not
\* yet in users, succeeds and inserts the row.
RegisterStep(accepted) ==
  (out'.op = "register" /\ accepted
     /\ UsersNamed(users, out'.in.username) = <<>>)
  => (out'.err = NoErr /\ UsersNamed(users', out'.in.username) # <<>>)

\* In this step loginUser, given a pair registered earlier, succeeds with
\* the id assigned at registration and the default role.
LoginStep ==
  (out'.op = "login" /\ RegisteredAs(out'.in))
  => \E g \in hist.registered :
       /\ g.username = out'.in.username
       /\ out'.err = NoErr
       /\ out'.res = [id |-> g.id, role |-> DefaultRole]

\* C1, as amended: for every non-empty username not yet in users and
\* every non-empty password of at most 72 bytes, registerUser succeeds, and
\* every later loginUser with the same pair, after any menu actions,
\* succeeds with the id assigned at registration and the role "user".
C1_RegisterThenLogin ==
  [][/\ RegisterStep(out'.op = "register" /\ ValidCredentials(out'.in))
     /\ LoginStep]_vars

\* C1 as stated: the same for every non-empty password, whatever its length.
C1_AnyNonEmptyPassword ==
  [][/\ RegisterStep(out'.op = "register" /\ NonEmptyCredentials(out'.in))
     /\ LoginStep]_vars

\* C1: the second user registered has logged in with a 72-byte password.
C1_Witness ==
  /\ out.op = "login"
  /\ out.err = NoErr
  /\ out.res = [id |-> 2, role |-> DefaultRole]
  /\ Len(out.in.password) = BcryptMaxLen

\* C2 as stated: loginUser fails with the not-found error when no row has
\* the username, and with the wrong-password error when a row has it but
\* the password is not the one registered; neither returns an id or a role.
C2_LoginFailures ==
  out.op = "login" =>
    /\ UsersNamed(users, out.in.username) = <<>>
         => (out.err = ErrUserNotFound /\ out.res = NoLogin)
    /\ (UsersNamed(users, out.in.username) # <<>> /\ ~RegisteredAs(out.in))
         => (out.err = ErrWrongPassword /\ out.res = NoLogin)

\* C3 as stated: registerUser for a username already in users, with any
\* non-empty password p, fails with the duplicate-user error and leaves
\* users unchanged, so that afterwards the registered password logs in and
\* p, if different, does not.
C3_DuplicateRegister ==
  [][(out'.op = "register" /\ out'.in.password # <<>>
        /\ UsersNamed(users, out'.in.username) # <<>>)
     => /\ out'.err = ErrUserExists
        /\ users' = users
        /\ \A g \in hist.registered :
             g.username = out'.in.username =>
               /\ loginUser(users', g.username, g.password).err = NoErr
               /\ out'.in.password # g.password =>
                    loginUser(users', g.username, out'.in.password).err # NoErr]_vars

\* The skill list the row id of a table was inserted with.
GivenSkills(table, id, list) ==
  \E h \in hist.skills : h.table = table /\ h.id = id /\ h.skills = list

HasSkill(table, id, skill) ==
  \E h \in hist.skills :
    h.table = table /\ h.id = id /\ \E k \in DOMAIN h.skills : h.skills[k] = skill

\* A search for skill over rows returned res: exactly the rows whose list
\* has the skill as an element, and no error when there is none.
SearchIsMembership(table, rows) ==
  LET returned == {out.res[i].ID : i \in DOMAIN out.res}
      matching == {rows[i].id : i \in {k \in DOMAIN rows :
                                         HasSkill(table, rows[k].id, out.in.skill)}}
  IN  /\ returned = matching
      /\ matching = {} => (out.err = NoErr /\ out.res = <<>>)

\* C4 as stated: findCandidatesBySkill(s) returns a candidate stored with
\* skill list S if and only if s is an element of S, and likewise
\* findJobOpeningsBySkill; with no match the result is the empty list and
\* no error.
C4_SearchIffElement ==
  /\ out.op = "find_candidates" => SearchIsMembership("candidates", candidates)
  /\ out.op = "find_job_openings" => SearchIsMembership("job_openings", job_openings)

\* Every job opening's company_id is the id of a companies row.
ForeignKeyHolds ==
  \A i \in DOMAIN job_openings :
    \E j \in DOMAIN companies : companies[j].id = job_openings[i].company_id

\* addJobOpening was called in this step (no prompt failed to parse) with a
\* company_id that matches no companies row.
NoSuchCompanyStep ==
  /\ out'.op = "add_job_opening"
  /\ out'.err \notin {ErrParseInt, ErrParseFloat}
  /\ ~\E j \in DOMAIN companies : companies[j].id = out'.in.CompanyID

JobFieldsMissing(j) == j.Title = <<>> \/ j.CompanyID <= 0 \/ j.Salary <= 0

\* C5, as amended: addJobOpening with a company_id that matches no row of
\* companies fails and inserts nothing -- with the validation error when
\* the title is empty or the company id or the salary is not positive,
\* with a storage error otherwise -- so every job_openings row's
\* company_id is the id of a companies row, in every reachable state.
C5_ForeignKey ==
  /\ []ForeignKeyHolds
  /\ [][NoSuchCompanyStep =>
          /\ job_openings' = job_openings
          /\ out'.err = IF JobFieldsMissing(out'.in)
                        THEN ErrJobFields ELSE ErrAddJobOpening]_vars

\* C5 as stated: the failure is a storage error (here even granted a title
\* and a positive salary).
C5_AlwaysStorageError ==
  /\ []ForeignKeyHolds
  /\ [][(NoSuchCompanyStep /\ out'.in.Title # <<>> /\ out'.in.Salary > 0) =>
          /\ job_openings' = job_openings
          /\ out'.err = ErrAddJobOpening]_vars

\* C5: addJobOpening has failed at the store for company id 2 while the
\* only company has id 1.
C5_Witness ==
  /\ out.op = "add_job_opening"
  /\ out.err = ErrAddJobOpening
  /\ out.in.CompanyID = 2
  /\ Len(companies) = 1
  /\ job_openings = <<>>

\* C6: a candidate or job opening inserted with skill list L is read back,
\* by a search that returns it or by listAllJobOpenings (which returns
\* every row), with exactly L: same elements, same order, duplicates kept,
\* also when L is empty.
C6_SkillsRoundTrip ==
  /\ (out.op = "find_candidates" /\ out.err = NoErr) =>
       \A i \in DOMAIN out.res :
         GivenSkills("candidates", out.res[i].ID, out.res[i].Skills)
  /\ (out.op \in {"find_job_openings", "list_job_openings"} /\ out.err = NoErr) =>
       \A i \in DOMAIN out.res :
         GivenSkills("job_openings", out.res[i].ID, out.res[i].RequiredSkills)
  /\ out.op = "list_job_openings" =>
       (out.err = NoErr /\ Len(out.res) = Len(job_openings))

\* C6: a search has returned a candidate whose list has an order, a
\* duplicate and a quotation mark, and the empty list has been inserted.
C6_Witness ==
  /\ out.op = "find_candidates"
  /\ out.err = NoErr
  /\ \E i \in DOMAIN out.res :
       out.res[i].Skills = <<<<"s">>, <<"g">>, <<"s">>, <<Quote>>>>
  /\ \E h \in hist.skills : h.skills = <<>>

\* The rows of old are the first rows of new, unchanged, and each further
\* row of new has an id greater than that of every row before it.
Extends(old, new) ==
  /\ Len(new) >= Len(old)
  /\ SubSeq(new, 1, Len(old)) = old
  /\ \A i \in (Len(old) + 1)..Len(new) : \A j \in 1..(i - 1) : new[i].id > new[j].id

\* C7: the store is insert-only: across any menu actions every row of the
\* four tables stays, with the same field values, and a new row's id is
\* greater than every id assigned before in its table, so never reused.
C7_InsertOnly ==
  [][/\ Extends(users, users')
     /\ Extends(companies, companies')
     /\ Extends(candidates, candidates')
     /\ Extends(job_openings, job_openings')]_vars

\* C7: a second company has been inserted.
C7_Witness ==
  /\ Len(companies) = 2
  /\ out.op = "add_company"
  /\ out.err = NoErr

\* C8: once the loop has started the process ends only when choice 9 is
\* read: every step starts at the prompt; every error, unparsable choice
\* and unknown number leads back to the prompt; and choice 9 ends the loop
\* with no store operation.
C8_OnlyExitEnds ==
  [][/\ pc = "menu"
     /\ out'.op # "exit" => pc' = "menu"
     /\ pc' = "done" => (out'.op = "exit" /\ out'.in.choice = 9
                           /\ UNCHANGED <<tables, seq>>)]_vars

\* C8: an action has reported an error and the loop is at its prompt.
C8_Witness ==
  /\ out.err = ErrAddCompany
  /\ pc = "menu"

InputErrors ==
  {ErrParseInt, ErrParseFloat, ErrEmptyCredentials, ErrEmptyCompany,
   ErrCandidateFields, ErrJobFields}

\* The repository function was called in this step.
Called(op) == out'.op = op /\ out'.err \notin {ErrParseInt, ErrParseFloat}

\* C9: a menu action that reports an input error leaves the four tables
\* (and their sequences) unchanged; and a required field that is empty or
\* not positive makes the repository function return its validation error.
C9_InputErrorFrame ==
  [][/\ out'.err \in InputErrors => UNCHANGED <<tables, seq>>
     /\ (Called("register") /\ ~NonEmptyCredentials(out'.in))
          => out'.err = ErrEmptyCredentials
     /\ (Called("add_company") /\ out'.in.name = <<>>)
          => out'.err = ErrEmptyCompany
     /\ (Called("add_candidate")
           /\ (out'.in.FullName = <<>> \/ out'.in.Age <= 0))
          => out'.err = ErrCandidateFields
     /\ (Called("add_job_opening") /\ JobFieldsMissing(out'.in))
          => out'.err = ErrJobFields]_vars

\* C9: addCandidate has refused an age of 0 on a table that holds a row.
C9_Witness ==
  /\ out.op = "add_candidate"
  /\ out.err = ErrCandidateFields
  /\ out.in.Age = 0
  /\ Len(candidates) = 1

BothDone == inst[1].pc = "done" /\ inst[2].pc = "done"

\* The place in the log of instance i's statement.
Place(stmt, i) == CHOOSE k \in DOMAIN log : log[k] = [stmt |-> stmt, by |-> i]

UniqueUsernames ==
  \A i, j \in DOMAIN users : users[i].username = users[j].username => i = j

\* Both instances are through registerUser for one username, with accepted
\* arguments: one has succeeded, the other has the duplicate-user error if
\* its probe came after the winner's insert and the store's error
\* otherwise, and users holds one row of that name.
OneWinner(accepted) ==
  (BothDone /\ inst[1].username = inst[2].username /\ accepted)
  => \E w \in {1, 2} :
       /\ inst[w].err = NoErr
       /\ inst[3 - w].err = IF Place("probe", 3 - w) > Place("insert", w)
                            THEN ErrUserExists ELSE ErrRegister
       /\ Len(UsersNamed(users, inst[w].username)) = 1

\* C10, as amended: when two instances run registerUser for the same
\* non-empty username with non-empty passwords of at most 72 bytes, their
\* probes and inserts interleaved in any order, users never holds two rows
\* of one username, exactly one insert succeeds, and the other instance
\* gets the duplicate-user error if its probe ran after the winner's
\* insert, the store's uniqueness error otherwise.
C10_OneWinner ==
  /\ UniqueUsernames
  /\ OneWinner(ValidCredentials(inst[1]) /\ ValidCredentials(inst[2]))

\* C10 as stated: the same whatever the passwords' length.
C10_AnyPassword ==
  /\ UniqueUsernames
  /\ OneWinner(NonEmptyCredentials(inst[1]) /\ NonEmptyCredentials(inst[2]))

\* C10: both probes ran before either insert, and the second insert failed
\* at the uniqueness constraint.
C10_Witness ==
  /\ BothDone
  /\ inst[1].username = inst[2].username
  /\ inst[1].err = NoErr
  /\ inst[2].err = ErrRegister

====
